---------------------------- MODULE Spec2Model ----------------------------
(***************************************************************************)
(* Firehose.space API worker (src/src/worker.ts): the vote ledger and the  *)
(* score cache, the KV rate limiter, post submission and its status       *)
(* endpoint, magic-link login and verification, comments, clicks, edits,   *)
(* post reads, the leaderboard and the hotness recalculator.               *)
(* Every handler is split at its awaits on shared storage (D1 statements   *)
(* and KV get/put), so that concurrent requests interleave exactly where   *)
(* the worker can yield.                                                   *)
(***************************************************************************)
EXTENDS Integers, Sequences, FiniteSets, TLC

\* ------------------------------------------------------------------ bounds
\* Number of request slots; each slot serves one request.
MaxReq == 2
\* Number of clock ticks the model lets pass.
MaxTicks == 2
\* Number of magic-link logins the model lets happen.
MaxLogins == 4

\* ------------------------------------------------------- program constants
VoteLimit == 100
VoteWindow == 3600
PostLimit == 1
PostWindow == 24 * 60 * 60
CommentWindow == 3600
CommentLimit == 10
EditWindow == 2 * 60 * 60
MagicLinkLimit == 3
MagicLinkWindow == 3600
MagicTokenTtlMs == 15 * 60 * 1000

\* The clock advances in steps of half a vote window.
TickSeconds == VoteWindow \div 2

Req == 1..MaxReq
Users == {"u1", "u2"}
\* getCurrentUser returns null for a request without a valid session.
Anon == "anon"
Callers == Users \cup {Anon}
\* Request bodies of handleLogin: two addresses and a string without "@".
Emails == {"a@x", "b@x"}
EmailInputs == Emails \cup {"nobody"}
\* Request bodies of handleSubmitPost and handleEditPost: a title and a
\* markdown content, "" when the field is missing or blank.
NoTitle == ""
Titles == {"t1", "t2"}
NoContent == ""
Contents == {"m1", "m2"}
PostTypes == {"link", "self"}
PostTypeInputs == PostTypes \cup {"poll"}
Urls == {"https://a/", "https://a/#top", "https://b/"}
NoUrl == ""
\* vote_type values a request body may carry ("sideways": any other string).
VoteTypes == {"up", "down"}
VoteInputs == VoteTypes \cup {"sideways"}
\* Entity ids a request may name; id 2 names no row of the seeded tables.
EntityIds == {1, 2}

VARIABLES
  now,          \* wall clock, seconds
  posts,        \* posts table: id -> row
  comments,     \* comments table: id -> row
  votes,        \* votes table: set of rows
  kv,           \* CACHE namespace: key -> [value, expires]
  magic_tokens, \* magic_tokens table: set of rows
  users,        \* users table: set of rows
  post_bodies,  \* post_bodies table: post id -> markdown
  board,        \* the last response of GET /api/leaderboard
  probe,        \* history: the last evaluation of the hotness expression on a row
  req,          \* request slots: handler, position, locals, response status
  windowLog,    \* history: key -> start of its window, calls made and calls allowed in it
  cast          \* history: <<user, type, id>> -> directions of the votes answered 200

vars == <<now, posts, comments, votes, kv, magic_tokens, users, post_bodies, board, probe, req, windowLog, cast>>

\* --------------------------------------------------------- string <-> int
\* Decimal strings are sequences of digits; the empty sequence is null / "".
RECURSIVE toString(_)
toString(n) == IF n < 10 THEN <<n>> ELSE Append(toString(n \div 10), n % 10)

RECURSIVE parseInt(_)
parseInt(s) ==
  IF Len(s) = 0 THEN 0
  ELSE 10 * parseInt(SubSeq(s, 1, Len(s) - 1)) + s[Len(s)]

Null == << >>

\* ------------------------------------------------------------- KV store
\* The namespace is read and written one call at a time; every read sees the
\* latest write.
\* CACHE.get: the value, or null once the key's expirationTtl has passed.
KvGet(store, key, t) ==
  IF key \in DOMAIN store /\ t < store[key].expires THEN store[key].value ELSE Null

\* CACHE.put(key, value, { expirationTtl: ttl })
KvPut(store, key, value, ttl, t) ==
  (key :> [value |-> value, expires |-> t + ttl]) @@ store

\* checkRateLimit, line 194: count = current ? parseInt(current) : 0
CountOf(current) == IF current = Null THEN 0 ELSE parseInt(current)

\* Off-by-one comparison: the limit itself is still let through.
RateLimited_OffByOne(count, limit) == count > limit

\* checkRateLimit, line 196: if (count >= limit) return false
RateLimited(count, limit) == count >= limit

\* ------------------------------------------------------------------- time
\* `now` and every created_at count seconds, as unixepoch() does.  Date.now()
\* counts milliseconds, 1000 * now, a number beyond the integers of the model
\* checker: an instant in milliseconds is held as its whole seconds and the
\* milliseconds left over, and is never multiplied out.
HourSeconds == 60 * 60
DaySeconds == 24 * HourSeconds
WeekSeconds == 7 * DaySeconds

\* A clock reading of the deployed worker: 14 November 2023, 22:00 UTC.
Epoch == 472222 * HourSeconds

\* Date.now()
DateNow(t) == [sec |-> t, ms |-> 0]

\* m - seconds * 1000, for an instant m in milliseconds.
MinusSeconds(m, seconds) == [m EXCEPT !.sec = @ - seconds]

\* n > m as SQLite compares the integer column value n with the bound
\* number of milliseconds m.
GreaterThanMillis(n, m) ==
  \/ n \div 1000 > m.sec
  \/ n \div 1000 = m.sec /\ n % 1000 > m.ms

\* ------------------------------------------------------------------ reals
\* A hotness value (score + 0.2 * comments_count) / POWER(hours, 1.5) is held
\* exactly: num is the numerator in fifths, den the number of hours in
\* thousandths.  Zero stands for 0.0, the schema's default.
Zero == [num |-> 0, den |-> 1000]

Real(num, den) == IF num = 0 THEN Zero ELSE [num |-> num, den |-> den]

\* a <= b for two such values with positive den: the sign decides when the
\* numerators differ in sign, POWER(x, 1.5) being increasing decides when they
\* are equal, and otherwise the squares are compared.
RealLeq(a, b) ==
  IF a.num <= 0 /\ b.num >= 0 THEN TRUE
  ELSE IF a.num > 0 /\ b.num <= 0 THEN FALSE
  ELSE IF a.num = b.num THEN (IF a.num > 0 THEN a.den >= b.den ELSE a.den <= b.den)
  ELSE IF a.num > 0
       THEN a.num * a.num * b.den * b.den * b.den <= b.num * b.num * a.den * a.den * a.den
       ELSE a.num * a.num * b.den * b.den * b.den >= b.num * b.num * a.den * a.den * a.den

\* ----------------------------------------------------------------- tables
\* The users table: the two accounts that send requests, and a third that
\* only owns content.
UserRows == Users \cup {"u3"}

\* A row of users as INSERT INTO users (id, email, display_name) makes it.
UserRow(id, email) == [id |-> id, email |-> email]

\* The address each account signed up with.
EmailOf(u) == IF u = "u1" THEN "a@x" ELSE IF u = "u2" THEN "b@x" ELSE "c@x"

\* The rows of the accounts above.
SeedUsers == {UserRow(u, EmailOf(u)) : u \in UserRows}

\* A row of posts as INSERT INTO posts and the schema's defaults make it.
PostRow(type, author, hash, t, title) ==
  [type |-> type, title |-> title, author_id |-> author, normalized_url_hash |-> hash,
   score |-> 0, clicks |-> 0, comments_count |-> 0, created_at |-> t,
   updated_at |-> t, hotness |-> Zero]

\* A row of comments, with the schema's defaults.
CommentRow(post, u, t) ==
  [post_id |-> post, user_id |-> u, score |-> 0, created_at |-> t]

\* ------------------------------------------------------------ vote ledger
EntityType(op) == IF op = "handleVotePost" THEN "post" ELSE "comment"

VoteRow(u, t, id, vt) ==
  [user_id |-> u, entity_type |-> t, entity_id |-> id, vote_type |-> vt]

\* A plain INSERT into a table without the UNIQUE constraint: nothing is replaced.
InsertOrReplace_NoReplace(rows, u, t, id, vt) == rows \cup {VoteRow(u, t, id, vt)}

\* INSERT OR REPLACE INTO votes ... under UNIQUE(user_id, entity_type, entity_id):
\* the conflicting row is deleted, then the new row is inserted.
InsertOrReplace(rows, u, t, id, vt) ==
  {v \in rows : ~(v.user_id = u /\ v.entity_type = t /\ v.entity_id = id)}
    \cup {VoteRow(u, t, id, vt)}

CountVotes(rows, t, id, vt) ==
  Cardinality({v \in rows : v.entity_type = t /\ v.entity_id = id /\ v.vote_type = vt})

\* A recount that forgets the down votes.
NewScore_UpsOnly(rows, t, id) == CountVotes(rows, t, id, "up")

\* SELECT (COUNT up) - (COUNT down) as new_score
NewScore(rows, t, id) == CountVotes(rows, t, id, "up") - CountVotes(rows, t, id, "down")

EntityExists(t, id) == IF t = "post" THEN id \in DOMAIN posts ELSE id \in DOMAIN comments

\* The score column of the entity's row.
StoredScore(ps, cs, t, id) == IF t = "post" THEN ps[id].score ELSE cs[id].score



\* ---------------------------------------------------------- request slots
IdleReq ==
  [op |-> "none", pc |-> "idle", user |-> Anon, id |-> 0, arg |-> "",
   hash |-> "", title |-> "", content |-> "", parent |-> 0, count |-> 0,
   newScore |-> 0, status |-> 0, can |-> FALSE, at |-> 0,
   wroteKv |-> FALSE, wroteDb |-> FALSE, stale |-> FALSE]

VoteOps == {"handleVotePost", "handleVoteComment"}

InFlight(r) == req[r].pc \notin {"idle", "done"}

\* Requests take the slots in order: slot r serves the r-th request to arrive.
FreeSlot(r) == req[r].pc = "idle" /\ \A q \in Req : q < r => req[q].pc # "idle"

\* The response: the handler returns, its locals are gone, and the slot keeps
\* the status code and what the request wrote.
Respond(rec, code) ==
  [IdleReq EXCEPT !.op = rec.op, !.pc = "done", !.status = code,
                  !.wroteKv = rec.wroteKv, !.wroteDb = rec.wroteDb]

\* Rate-limit parameters each handler passes to checkRateLimit.
RateKey(op, u) ==
  IF op = "handleSubmitComment" THEN <<"comment_limit", u>> ELSE <<"vote_limit", u>>
RateLimit(op) == IF op = "handleSubmitComment" THEN CommentLimit ELSE VoteLimit
RateWindow(op) == IF op = "handleSubmitComment" THEN CommentWindow ELSE VoteWindow

\* Where each handler goes on once checkRateLimit has returned true.
AfterRateLimit(rec) ==
  IF rec.op \in VoteOps THEN "upsert"
  ELSE IF rec.parent # 0 THEN "c_parent" ELSE "c_insert"

\* ------------------------------------------- handleVotePost / handleVoteComment
\* getCurrentUser, the vote_type check and the SELECT of the target row.
VoteBegin(r, op, u, id, vt) ==
  /\ FreeSlot(r)
  /\ LET rec == [IdleReq EXCEPT !.op = op, !.user = u]
     IN req' = [req EXCEPT ![r] =
          IF u = Anon THEN Respond(rec, 401)
          ELSE IF vt \notin VoteTypes THEN Respond(rec, 400)
          ELSE IF ~EntityExists(EntityType(op), id) THEN Respond(rec, 404)
          ELSE [rec EXCEPT !.pc = "rl_get", !.id = id, !.arg = vt]]
  /\ UNCHANGED <<users, post_bodies, board, probe, now, posts, comments, votes, kv, magic_tokens, windowLog, cast>>

\* The counter is written before it is compared: a rejected call still counts.
RateGet_IncrementFirst(r) ==
  /\ req[r].pc = "rl_get"
  /\ LET key == RateKey(req[r].op, req[r].user)
         count == CountOf(KvGet(kv, key, now))
     IN /\ kv' = KvPut(kv, key, toString(count + 1), RateWindow(req[r].op), now)
        /\ req' = [req EXCEPT ![r] =
             IF RateLimited(count, RateLimit(req[r].op))
             THEN Respond([req[r] EXCEPT !.wroteKv = TRUE], 429)
             ELSE [req[r] EXCEPT !.pc = "rl_put", !.count = count, !.wroteKv = TRUE]]
        /\ windowLog' = IF req'[r].pc = "done"
                        THEN [windowLog EXCEPT ![key].n = @ + 1]
                        ELSE windowLog
  /\ UNCHANGED <<users, post_bodies, board, probe, now, posts, comments, votes, magic_tokens, cast>>

\* checkRateLimit up to its return false: CACHE.get, parseInt, count >= limit.
RateGet(r) ==
  /\ req[r].pc = "rl_get"
  /\ LET count == CountOf(KvGet(kv, RateKey(req[r].op, req[r].user), now))
     IN req' = [req EXCEPT ![r] =
          IF RateLimited(count, RateLimit(req[r].op))
          THEN Respond(req[r], 429)
          ELSE [req[r] EXCEPT !.pc = "rl_put", !.count = count]]
  /\ windowLog' = IF req'[r].pc = "done"
                  THEN [windowLog EXCEPT ![RateKey(req[r].op, req[r].user)].n = @ + 1]
                  ELSE windowLog
  /\ UNCHANGED <<users, post_bodies, board, probe, now, posts, comments, votes, kv, magic_tokens, cast>>

\* checkRateLimit's CACHE.put of count + 1 with a fresh expirationTtl.
RatePut(r) ==
  /\ req[r].pc = "rl_put"
  /\ LET key == RateKey(req[r].op, req[r].user)
     IN /\ kv' = KvPut(kv, key, toString(req[r].count + 1), RateWindow(req[r].op), now)
        /\ windowLog' = IF req[r].count = 0
                        THEN (key :> [start |-> now, n |-> 1, ok |-> 1]) @@ windowLog
                        ELSE [windowLog EXCEPT ![key].n = @ + 1, ![key].ok = @ + 1]
  /\ req' = [req EXCEPT ![r].pc = AfterRateLimit(req[r]), ![r].count = 0,
                        ![r].wroteKv = @ \/ (kv' # kv)]
  /\ UNCHANGED <<users, post_bodies, board, probe, now, posts, comments, votes, magic_tokens, cast>>

\* INSERT OR REPLACE INTO votes.
VoteUpsert(r) ==
  /\ req[r].pc = "upsert"
  /\ votes' = InsertOrReplace(votes, req[r].user, EntityType(req[r].op), req[r].id, req[r].arg)
  /\ req' = [q \in Req |->
       IF q = r
       THEN [req[r] EXCEPT !.pc = "rescan", !.wroteDb = @ \/ (votes' # votes)]
       ELSE IF /\ req[q].pc = "write"
               /\ req[q].op = req[r].op
               /\ req[q].id = req[r].id
            THEN [req[q] EXCEPT !.stale = TRUE]
            ELSE req[q]]
  /\ UNCHANGED <<users, post_bodies, board, probe, now, posts, comments, kv, magic_tokens, windowLog, cast>>

\* The recount of the entity's up and down rows.
VoteRescan(r) ==
  /\ req[r].pc = "rescan"
  /\ req' = [req EXCEPT ![r].pc = "write",
                        ![r].newScore = NewScore(votes, EntityType(req[r].op), req[r].id),
                        ![r].stale = FALSE]
  /\ UNCHANGED <<users, post_bodies, board, probe, now, posts, comments, votes, kv, magic_tokens, windowLog, cast>>

\* The score is written to the post and to the comment that carry the id.
WriteScore_BothTypes(ps, cs, t, id, score) ==
  <<IF id \in DOMAIN ps THEN [ps EXCEPT ![id].score = score] ELSE ps,
    IF id \in DOMAIN cs THEN [cs EXCEPT ![id].score = score] ELSE cs>>

\* SET score = score + ? : the recount is added to the stored score.
WriteScore_Additive(ps, cs, t, id, score) ==
  IF t = "post"
  THEN <<IF id \in DOMAIN ps THEN [ps EXCEPT ![id].score = @ + score] ELSE ps, cs>>
  ELSE <<ps, IF id \in DOMAIN cs THEN [cs EXCEPT ![id].score = @ + score] ELSE cs>>

\* UPDATE posts SET score = ?, hotness = ? : the vote also rewrites hotness.
WriteScore_TouchHotness(ps, cs, t, id, score) ==
  IF t = "post"
  THEN <<IF id \in DOMAIN ps
         THEN [ps EXCEPT ![id].score = score, ![id].hotness = Real(5 * score + 1, 2000)]
         ELSE ps, cs>>
  ELSE <<ps, IF id \in DOMAIN cs THEN [cs EXCEPT ![id].score = score] ELSE cs>>

\* UPDATE posts / comments SET score = newScore WHERE id = ?
WriteScore(ps, cs, t, id, score) ==
  IF t = "post"
  THEN <<IF id \in DOMAIN ps THEN [ps EXCEPT ![id].score = score] ELSE ps, cs>>
  ELSE <<ps, IF id \in DOMAIN cs THEN [cs EXCEPT ![id].score = score] ELSE cs>>

VoteWriteScore(r) ==
  /\ req[r].pc = "write"
  /\ LET t == EntityType(req[r].op)
         w == WriteScore(posts, comments, t, req[r].id, req[r].newScore)
         k == <<req[r].user, t, req[r].id>>
     IN /\ posts' = w[1]
        /\ comments' = w[2]
        /\ cast' = [cast EXCEPT ![k] = Append(@, req[r].arg)]
  /\ req' = [req EXCEPT ![r] =
       [Respond([req[r] EXCEPT !.wroteDb = @ \/ (posts' # posts) \/ (comments' # comments)], 200)
          EXCEPT !.user = req[r].user, !.id = req[r].id, !.stale = req[r].stale]]
  /\ UNCHANGED <<users, post_bodies, board, probe, now, votes, kv, magic_tokens, windowLog>>

\* A D1 statement or KV call throws; the handler's catch answers 500.
StorageError(r) ==
  /\ req[r].pc \in {"rl_get", "rl_put", "upsert", "rescan", "write"}
  /\ req' = [req EXCEPT ![r] = Respond(req[r], 500)]
  /\ UNCHANGED <<users, post_bodies, board, probe, now, posts, comments, votes, kv, magic_tokens, windowLog, cast>>

\* ------------------------------------------------------------ handleSubmitPost
\* normalizeUrl: tracking parameters and the fragment are removed.
normalizeUrl(url) == IF url = "https://a/#top" THEN "https://a/" ELSE url

\* hashUrl: SHA-256 of the normalized URL, written as the text it digests.
hashUrl(url) == normalizeUrl(url)

\* The counter is incremented as soon as it has been read and found below the
\* limit, before the body of the request is checked.
SubmitBegin_IncrementFirst(r, u, type, title, url, content) ==
  /\ FreeSlot(r)
  /\ LET rec == [IdleReq EXCEPT !.op = "handleSubmitPost", !.user = u]
         count == CountOf(KvGet(kv, <<"post_limit", u>>, now))
         counted == [rec EXCEPT !.wroteKv = TRUE]
     IN /\ kv' = IF u # Anon /\ count < PostLimit
                  THEN KvPut(kv, <<"post_limit", u>>, toString(count + 1), PostWindow, now)
                  ELSE kv
        /\ req' = [req EXCEPT ![r] =
             IF u = Anon THEN Respond(rec, 401)
             ELSE IF count >= PostLimit THEN Respond(rec, 429)
             ELSE IF title = NoTitle \/ type \notin PostTypes THEN Respond(counted, 400)
             ELSE IF type = "link" /\ url = NoUrl THEN Respond(counted, 400)
             ELSE IF type = "self" /\ content = NoContent THEN Respond(counted, 400)
             ELSE IF type = "link"
                  THEN [counted EXCEPT !.pc = "sp_dup", !.arg = type, !.count = count,
                                       !.title = title, !.hash = hashUrl(url)]
                  ELSE [counted EXCEPT !.pc = "sp_insert", !.arg = type, !.count = count,
                                       !.title = title, !.content = content]]
  /\ UNCHANGED <<users, post_bodies, board, probe, now, posts, comments, votes, magic_tokens, windowLog, cast>>

\* The count handleSubmitPost reads: CACHE.get(post_limit:<user>), parsed.
PostCount(store, u, t) == CountOf(KvGet(store, <<"post_limit", u>>, t))

\* if (count >= 1): the 429 of handleSubmitPost
PostLimitReached(count) == count >= PostLimit

\* getCurrentUser, the read of post_limit:<user>, and the checks of the body.
SubmitBegin(r, u, type, title, url, content) ==
  /\ FreeSlot(r)
  /\ LET rec == [IdleReq EXCEPT !.op = "handleSubmitPost", !.user = u]
         count == PostCount(kv, u, now)
     IN req' = [req EXCEPT ![r] =
          IF u = Anon THEN Respond(rec, 401)
          ELSE IF PostLimitReached(count) THEN Respond(rec, 429)
          ELSE IF title = NoTitle \/ type \notin PostTypes THEN Respond(rec, 400)
          ELSE IF type = "link" /\ url = NoUrl THEN Respond(rec, 400)
          ELSE IF type = "self" /\ content = NoContent THEN Respond(rec, 400)
          ELSE IF type = "link"
               THEN [rec EXCEPT !.pc = "sp_dup", !.arg = type, !.count = count,
                                !.title = title, !.hash = hashUrl(url)]
               ELSE [rec EXCEPT !.pc = "sp_insert", !.arg = type, !.count = count,
                                !.title = title, !.content = content]]
  /\ UNCHANGED <<users, post_bodies, board, probe, now, posts, comments, votes, kv, magic_tokens, windowLog, cast>>

\* SELECT id FROM posts WHERE normalized_url_hash = ?
SubmitDuplicateCheck(r) ==
  /\ req[r].pc = "sp_dup"
  /\ req' = [req EXCEPT ![r] =
       IF \E p \in DOMAIN posts : posts[p].normalized_url_hash = req[r].hash
       THEN Respond(req[r], 409)
       ELSE [req[r] EXCEPT !.pc = "sp_insert"]]
  /\ UNCHANGED <<users, post_bodies, board, probe, now, posts, comments, votes, kv, magic_tokens, windowLog, cast>>

\* INSERT INTO posts: a fresh id, created_at defaults to unixepoch().
SubmitInsertPost(r) ==
  /\ req[r].pc = "sp_insert"
  /\ LET postId == Cardinality(DOMAIN posts) + 1
     IN /\ posts' = (postId :> PostRow(req[r].arg, req[r].user, req[r].hash, now, req[r].title)) @@ posts
        /\ req' = [req EXCEPT ![r].pc = IF req[r].arg = "self" THEN "sp_body" ELSE "sp_put",
                              ![r].id = postId,
                              ![r].wroteDb = TRUE]
  /\ UNCHANGED <<users, post_bodies, board, probe, now, comments, votes, kv, magic_tokens, windowLog, cast>>

\* INSERT INTO post_bodies, for a self post.
SubmitInsertBody(r) ==
  /\ req[r].pc = "sp_body"
  /\ post_bodies' = (req[r].id :> req[r].content) @@ post_bodies
  /\ req' = [req EXCEPT ![r].pc = "sp_put"]
  /\ UNCHANGED <<users, board, probe, now, posts, comments, votes, kv, magic_tokens, windowLog, cast>>

\* CACHE.put(post_limit:<user>, count + 1, 24 h), then the 200.
SubmitPutCounter(r) ==
  /\ req[r].pc = "sp_put"
  /\ kv' = KvPut(kv, <<"post_limit", req[r].user>>, toString(req[r].count + 1), PostWindow, now)
  /\ req' = [req EXCEPT ![r] =
       [Respond([req[r] EXCEPT !.wroteKv = TRUE], 200)
          EXCEPT !.user = req[r].user, !.id = req[r].id]]
  /\ UNCHANGED <<users, post_bodies, board, probe, now, posts, comments, votes, magic_tokens, windowLog, cast>>

\* A D1 statement or the CACHE.put throws inside the try; the catch answers 500.
SubmitStorageError(r) ==
  /\ req[r].pc \in {"sp_dup", "sp_insert", "sp_body", "sp_put"}
  /\ req' = [req EXCEPT ![r] = Respond(req[r], 500)]
  /\ UNCHANGED <<users, post_bodies, board, probe, now, posts, comments, votes, kv, magic_tokens, windowLog, cast>>

\* ------------------------------------------------------- handleGetRateLimitStatus
\* SELECT created_at FROM posts WHERE author_id = ? ORDER BY created_at DESC
\* LIMIT 1: the created_at of the user's last post, as a set with at most one
\* element.
lastPost(ps, u) ==
  {ps[p].created_at : p \in {x \in DOMAIN ps :
     /\ ps[x].author_id = u
     /\ \A y \in DOMAIN ps : ps[y].author_id = u => ps[y].created_at <= ps[x].created_at}}

\* The whole handler: getCurrentUser, the SELECT of the last post, and the
\* response with can_post (can) and next_post_at (at).
handleGetRateLimitStatus(r, u) ==
  /\ FreeSlot(r)
  /\ LET rec == [IdleReq EXCEPT !.op = "handleGetRateLimitStatus"]
         last == lastPost(posts, u)
         nextAllowedTime == (CHOOSE t \in last : TRUE) + PostWindow
     IN req' = [req EXCEPT ![r] =
          IF u = Anon THEN Respond(rec, 401)
          ELSE IF last # {} /\ now < nextAllowedTime
               THEN [Respond(rec, 200) EXCEPT !.user = u, !.can = FALSE, !.at = nextAllowedTime]
               ELSE [Respond(rec, 200) EXCEPT !.user = u, !.can = TRUE, !.at = now]]
  /\ UNCHANGED <<users, post_bodies, board, probe, now, posts, comments, votes, kv, magic_tokens, windowLog, cast>>

\* ------------------------------------------------------------------ handleLogin
\* email && email.includes('@')
ValidEmail(email) == email \in Emails

\* The whole handler: the check of the address and the INSERT of a fresh
\* token that expires in 15 minutes.  No counter is read or written.
handleLogin(email) ==
  /\ Cardinality(magic_tokens) < MaxLogins
  /\ magic_tokens' =
       IF ValidEmail(email)
       THEN magic_tokens \cup
              {[email |-> email, token |-> Cardinality(magic_tokens) + 1,
                expires_at |-> now * 1000 + MagicTokenTtlMs, used |-> FALSE,
                created_at |-> now]}
       ELSE magic_tokens
  /\ UNCHANGED <<users, post_bodies, board, probe, now, posts, comments, votes, kv, req, windowLog, cast>>

\* ------------------------------------------------------------ handleVerifyLogin
\* Tokens a request body may carry: 0 for a body without a token, and a token
\* that names no row.
TokenInputs == 0..2

\* nanoid(): a fresh id, different in every request.
NanoIds == <<"n1", "n2", "n3", "n4">>
nanoid(r) == NanoIds[r]

\* A token that is still accepted at the very instant it expires.
TokenLive_AtExpiry(row, t) ==
  /\ ~row.used
  /\ \/ GreaterThanMillis(row.expires_at, DateNow(t))
     \/ row.expires_at \div 1000 = t /\ row.expires_at % 1000 = 0

\* used = FALSE AND expires_at > ?, bound to Date.now()
TokenLive(row, t) == ~row.used /\ GreaterThanMillis(row.expires_at, DateNow(t))

\* The check of the body and
\* SELECT * FROM magic_tokens WHERE token = ? AND used = FALSE AND expires_at > ?
VerifyBegin(r, token) ==
  /\ FreeSlot(r)
  /\ LET rec == [IdleReq EXCEPT !.op = "handleVerifyLogin", !.id = token, !.at = now]
         found == {row \in magic_tokens : row.token = token /\ TokenLive(row, now)}
     IN req' = [req EXCEPT ![r] =
          IF token = 0 \/ found = {}
          THEN [Respond(rec, 400) EXCEPT !.id = token, !.at = now]
          ELSE [rec EXCEPT !.pc = "v_mark", !.arg = (CHOOSE row \in found : TRUE).email]]
  /\ UNCHANGED <<users, post_bodies, board, probe, now, posts, comments, votes, kv, magic_tokens, windowLog, cast>>

\* UPDATE magic_tokens SET used = TRUE WHERE token = ?
VerifyMarkUsed(r) ==
  /\ req[r].pc = "v_mark"
  /\ magic_tokens' = {IF row.token = req[r].id THEN [row EXCEPT !.used = TRUE] ELSE row :
                        row \in magic_tokens}
  /\ req' = [req EXCEPT ![r].pc = "v_user", ![r].wroteDb = TRUE]
  /\ UNCHANGED <<users, post_bodies, board, probe, now, posts, comments, votes, kv, windowLog, cast>>

\* SELECT * FROM users WHERE email = ?
VerifySelectUser(r) ==
  /\ req[r].pc = "v_user"
  /\ req' = [req EXCEPT ![r] =
       IF \E u \in users : u.email = req[r].arg
       THEN [req[r] EXCEPT !.pc = "v_session",
                           !.user = (CHOOSE u \in users : u.email = req[r].arg).id]
       ELSE [req[r] EXCEPT !.pc = "v_insert"]]
  /\ UNCHANGED <<users, post_bodies, board, probe, now, posts, comments, votes, kv, magic_tokens, windowLog, cast>>

\* INSERT INTO users (id, email, display_name): email is UNIQUE, and the
\* statement throws when a row with the address has appeared meanwhile.
VerifyInsertUser(r) ==
  /\ req[r].pc = "v_insert"
  /\ LET taken == \E u \in users : u.email = req[r].arg
     IN /\ users' = IF taken THEN users ELSE users \cup {UserRow(nanoid(r), req[r].arg)}
        /\ req' = [req EXCEPT ![r] =
             IF taken
             THEN [Respond(req[r], 500) EXCEPT !.id = req[r].id, !.at = req[r].at]
             ELSE [req[r] EXCEPT !.pc = "v_session", !.user = nanoid(r),
                                 !.wroteDb = TRUE]]
  /\ UNCHANGED <<post_bodies, board, probe, now, posts, comments, votes, kv, magic_tokens, windowLog, cast>>

\* createJWT({ user_id: user.id }) and the 200 that carries the session token.
VerifySession(r) ==
  /\ req[r].pc = "v_session"
  /\ req' = [req EXCEPT ![r] =
       [Respond(req[r], 200) EXCEPT !.id = req[r].id, !.at = req[r].at,
                                    !.user = req[r].user]]
  /\ UNCHANGED <<users, post_bodies, board, probe, now, posts, comments, votes, kv, magic_tokens, windowLog, cast>>

\* ------------------------------------------------------------ handleSubmitComment
\* parent_id values of a request body: 0 for none.
ParentIds == {0, 1, 2}

\* getCurrentUser, the checks of the body, and the SELECT of the post.
CommentBegin(r, u, post, body, parent) ==
  /\ FreeSlot(r)
  /\ LET rec == [IdleReq EXCEPT !.op = "handleSubmitComment", !.user = u]
     IN req' = [req EXCEPT ![r] =
          IF u = Anon THEN Respond(rec, 401)
          ELSE IF ~body THEN Respond(rec, 400)
          ELSE IF post \notin DOMAIN posts THEN Respond(rec, 404)
          ELSE [rec EXCEPT !.pc = "rl_get", !.id = post, !.parent = parent]]
  /\ UNCHANGED <<users, post_bodies, board, probe, now, posts, comments, votes, kv, magic_tokens, windowLog, cast>>

\* SELECT id FROM comments WHERE id = ? AND post_id = ?
CommentParentCheck(r) ==
  /\ req[r].pc = "c_parent"
  /\ req' = [req EXCEPT ![r] =
       IF req[r].parent \in DOMAIN comments /\ comments[req[r].parent].post_id = req[r].id
       THEN [req[r] EXCEPT !.pc = "c_insert"]
       ELSE Respond(req[r], 404)]
  /\ UNCHANGED <<users, post_bodies, board, probe, now, posts, comments, votes, kv, magic_tokens, windowLog, cast>>

\* INSERT INTO comments: a fresh id, created_at defaults to unixepoch().
CommentInsert(r) ==
  /\ req[r].pc = "c_insert"
  /\ comments' = (Cardinality(DOMAIN comments) + 1 :> CommentRow(req[r].id, req[r].user, now))
                   @@ comments
  /\ req' = [req EXCEPT ![r].pc = "c_count", ![r].wroteDb = TRUE]
  /\ UNCHANGED <<users, post_bodies, board, probe, now, posts, votes, kv, magic_tokens, windowLog, cast>>

\* UPDATE posts SET comments_count = comments_count + 1
CommentCount(r) ==
  /\ req[r].pc = "c_count"
  /\ posts' = [posts EXCEPT ![req[r].id].comments_count = @ + 1]
  /\ req' = [req EXCEPT ![r].pc = "c_fetch"]
  /\ UNCHANGED <<users, post_bodies, board, probe, now, comments, votes, kv, magic_tokens, windowLog, cast>>

\* The SELECT of the new comment, and the 200.
CommentFetch(r) ==
  /\ req[r].pc = "c_fetch"
  /\ req' = [req EXCEPT ![r] = [Respond(req[r], 200) EXCEPT !.id = req[r].id]]
  /\ UNCHANGED <<users, post_bodies, board, probe, now, posts, comments, votes, kv, magic_tokens, windowLog, cast>>

\* A D1 statement throws inside the try; the catch answers 500.
CommentStorageError(r) ==
  /\ req[r].pc \in {"c_parent", "c_insert", "c_count", "c_fetch"}
  /\ req' = [req EXCEPT ![r] = Respond(req[r], 500)]
  /\ UNCHANGED <<users, post_bodies, board, probe, now, posts, comments, votes, kv, magic_tokens, windowLog, cast>>

\* ------------------------------------------------------------------ handleEditPost
\* getCurrentUser, the check of the title, the SELECT of the post, and the
\* checks of the author, of the 2-hour edit window and of the content.
EditBegin(r, u, id, title, content) ==
  /\ FreeSlot(r)
  /\ LET rec == [IdleReq EXCEPT !.op = "handleEditPost", !.user = u, !.id = id, !.at = now]
         Reject(code) == [Respond(rec, code) EXCEPT !.user = u, !.id = id, !.at = now]
     IN req' = [req EXCEPT ![r] =
          IF u = Anon THEN Reject(401)
          ELSE IF title = NoTitle THEN Reject(400)
          ELSE IF id \notin DOMAIN posts THEN Reject(404)
          ELSE IF posts[id].author_id # u THEN Reject(403)
          ELSE IF now - posts[id].created_at > EditWindow THEN Reject(403)
          ELSE IF posts[id].type = "self" /\ content = NoContent THEN Reject(400)
          ELSE [rec EXCEPT !.pc = "e_update", !.title = title,
                           !.content = content,
                           !.arg = IF posts[id].type = "self" THEN "self" ELSE "link"]]
  /\ UNCHANGED <<users, post_bodies, board, probe, now, posts, comments, votes, kv, magic_tokens, windowLog, cast>>

\* UPDATE posts SET title = ?, image_url = ?, updated_at = unixepoch()
EditUpdate(r) ==
  /\ req[r].pc = "e_update"
  /\ posts' = [posts EXCEPT ![req[r].id].title = req[r].title,
                          ![req[r].id].updated_at = now]
  /\ req' = [req EXCEPT ![r] =
       IF req[r].arg = "self"
       THEN [req[r] EXCEPT !.pc = "e_body", !.wroteDb = TRUE]
       ELSE [Respond([req[r] EXCEPT !.wroteDb = TRUE], 200)
               EXCEPT !.user = req[r].user, !.id = req[r].id, !.at = req[r].at]]
  /\ UNCHANGED <<users, post_bodies, board, probe, now, comments, votes, kv, magic_tokens, windowLog, cast>>

\* UPDATE post_bodies SET markdown = ?, and the 200.
EditBody(r) ==
  /\ req[r].pc = "e_body"
  /\ post_bodies' = [post_bodies EXCEPT ![req[r].id] = req[r].content]
  /\ req' = [req EXCEPT ![r] =
       [Respond(req[r], 200)
          EXCEPT !.user = req[r].user, !.id = req[r].id, !.at = req[r].at]]
  /\ UNCHANGED <<users, board, probe, now, posts, comments, votes, kv, magic_tokens, windowLog, cast>>

\* ------------------------------------------------------------------ handleGetPost
\* Post ids a request may name: 4 names no row.
PostIds == 1..4

\* The edit window without its last second.
canEdit_Strict(u, post, t) ==
  u # Anon /\ post.author_id = u /\ (t - post.created_at) < EditWindow

\* canEdit: user && post.author_id === user.id && (now - createdAt) <= 2 h
canEdit(u, post, t) ==
  u # Anon /\ post.author_id = u /\ (t - post.created_at) <= EditWindow

\* The whole handler: getCurrentUser, the SELECT of the post joined with its
\* author and its body, and the response with can_edit.
handleGetPost(r, u, id) ==
  /\ FreeSlot(r)
  /\ LET rec == [IdleReq EXCEPT !.op = "handleGetPost"]
         found == id \in DOMAIN posts /\ \E a \in users : a.id = posts[id].author_id
     IN req' = [req EXCEPT ![r] =
          IF ~found THEN [Respond(rec, 404) EXCEPT !.user = u, !.id = id, !.at = now]
          ELSE [Respond(rec, 200) EXCEPT !.user = u, !.id = id, !.at = now,
                                         !.can = canEdit(u, posts[id], now)]]
  /\ UNCHANGED <<users, post_bodies, board, probe, now, posts, comments, votes, kv, magic_tokens, windowLog, cast>>

\* -------------------------------------------------------------- handleTrackClick
\* Post ids a click may name: 2 is a self post, 4 names no row.
ClickIds == 1..4

\* SELECT type FROM posts WHERE id = ? AND type = "link"
LinkPostFound(ps, id) == id \in DOMAIN ps /\ ps[id].type = "link"

\* An UPDATE without its WHERE: every post gets the click.
IncrementClicks_NoWhere(ps, id) == [p \in DOMAIN ps |-> [ps[p] EXCEPT !.clicks = @ + 1]]

\* UPDATE posts SET clicks = clicks + 1 WHERE id = ?
IncrementClicks(ps, id) == [ps EXCEPT ![id].clicks = @ + 1]

\* The SELECT, and the 404 when it finds no link post.
ClickBegin(r, id) ==
  /\ FreeSlot(r)
  /\ LET rec == [IdleReq EXCEPT !.op = "handleTrackClick", !.id = id]
     IN req' = [req EXCEPT ![r] =
          IF LinkPostFound(posts, id) THEN [rec EXCEPT !.pc = "k_update"]
          ELSE [Respond(rec, 404) EXCEPT !.id = id]]
  /\ UNCHANGED <<users, post_bodies, board, probe, now, posts, comments, votes, kv, magic_tokens, windowLog, cast>>

\* The UPDATE, one statement that reads and writes clicks, and the 200.
ClickUpdate(r) ==
  /\ req[r].pc = "k_update"
  /\ posts' = IncrementClicks(posts, req[r].id)
  /\ req' = [req EXCEPT ![r] =
       [Respond([req[r] EXCEPT !.wroteDb = TRUE], 200) EXCEPT !.id = req[r].id]]
  /\ UNCHANGED <<users, post_bodies, board, probe, now, comments, votes, kv, magic_tokens, windowLog, cast>>

\* The whole handler in one step, the SELECT and the UPDATE together: no
\* statement removes a post or changes its type, so no step of another
\* request that comes between the two changes what either does.
handleTrackClick(r, id) ==
  /\ FreeSlot(r)
  /\ LET rec == [IdleReq EXCEPT !.op = "handleTrackClick"]
         found == LinkPostFound(posts, id)
     IN /\ posts' = IF found THEN IncrementClicks(posts, id) ELSE posts
        /\ req' = [req EXCEPT ![r] =
             IF found THEN Respond([rec EXCEPT !.wroteDb = TRUE], 200)
             ELSE Respond(rec, 404)]
  /\ UNCHANGED <<users, post_bodies, board, probe, now, comments, votes, kv, magic_tokens, windowLog, cast>>

\* ----------------------------------------------------------- handleGetLeaderboard
\* Query parameters of GET /api/leaderboard.
Periods == {"total", "weekly"}
LimitParams == {-1, 1, 2, 101}
OffsetParams == {0, 1}
LimitCap == 100

\* weekAgo = Date.now() - (7 * 24 * 60 * 60 * 1000)
weekAgo(t) == MinusSeconds(DateNow(t), WeekSeconds)

\* The time filter of each sub-query: created_at > ? for period = weekly,
\* nothing otherwise.
timeFilter(period, created_at, t) ==
  period = "weekly" => GreaterThanMillis(created_at, weekAgo(t))

\* COUNT(v.id) of the posts of author u joined with their 'up' votes.
post_upvotes(u, period, t) ==
  Cardinality({v \in votes :
    /\ v.entity_type = "post" /\ v.vote_type = "up"
    /\ v.entity_id \in DOMAIN posts
    /\ posts[v.entity_id].author_id = u
    /\ timeFilter(period, posts[v.entity_id].created_at, t)})

\* COUNT(v.id) of the comments of user u joined with their 'up' votes.
comment_upvotes(u, period, t) ==
  Cardinality({v \in votes :
    /\ v.entity_type = "comment" /\ v.vote_type = "up"
    /\ v.entity_id \in DOMAIN comments
    /\ comments[v.entity_id].user_id = u
    /\ timeFilter(period, comments[v.entity_id].created_at, t)})

RECURSIVE SumClicks(_)
SumClicks(ids) ==
  IF ids = {} THEN 0
  ELSE LET p == CHOOSE x \in ids : TRUE
       IN posts[p].clicks + SumClicks(ids \ {p})

\* SUM(p.clicks) of the link posts of author u.
total_clicks(u, period, t) ==
  SumClicks({p \in DOMAIN posts :
    /\ posts[p].type = "link"
    /\ posts[p].author_id = u
    /\ timeFilter(period, posts[p].created_at, t)})

\* All three terms with weight 1.
total_score_Unweighted(u, period, t) ==
  2 * post_upvotes(u, period, t) + 2 * comment_upvotes(u, period, t)
    + 2 * total_clicks(u, period, t)

\* post_upvotes + (0.5 * comment_upvotes) + total_clicks, in halves.
total_score(u, period, t) ==
  2 * post_upvotes(u, period, t) + comment_upvotes(u, period, t)
    + 2 * total_clicks(u, period, t)

\* WHERE total_score >= 0
Qualifies_ZeroIncluded(score) == score >= 0

\* WHERE total_score > 0
Qualifies(score) == score > 0

\* The rows of author_stats that pass the WHERE.
author_stats(period, t) ==
  {[id |-> u, total_score |-> total_score(u, period, t)] :
     u \in {x \in UserRows : Qualifies(total_score(x, period, t))}}

\* ORDER BY total_score DESC: every arrangement of the rows in which the
\* scores do not grow; rows of equal score come in any order.
OrderByScoreDesc(rows) ==
  {f \in [1..Cardinality(rows) -> rows] :
     /\ \A i, j \in DOMAIN f : i # j => f[i] # f[j]
     /\ \A i, j \in DOMAIN f : i < j => f[i].total_score >= f[j].total_score}

\* LIMIT ? OFFSET ? as SQLite applies them: a negative limit is no limit, a
\* negative offset is no offset.
LimitOffset(rows, limit, offset) ==
  LET skip == IF offset < 0 THEN 0 ELSE offset
      last == IF limit < 0 \/ skip + limit > Len(rows) THEN Len(rows) ELSE skip + limit
  IN IF skip >= last THEN << >> ELSE SubSeq(rows, skip + 1, last)

\* The whole handler: the parameters, the one SELECT, the response.
handleGetLeaderboard(r, period, limitParam, offsetParam) ==
  /\ FreeSlot(r)
  /\ LET limit == IF limitParam < LimitCap THEN limitParam ELSE LimitCap
     IN \E rows \in OrderByScoreDesc(author_stats(period, now)) :
          board' = [period |-> period, limit |-> limit, offset |-> offsetParam,
                    authors |-> LimitOffset(rows, limit, offsetParam)]
  /\ req' = [req EXCEPT ![r] = Respond([IdleReq EXCEPT !.op = "handleGetLeaderboard"], 200)]
  /\ UNCHANGED <<users, post_bodies, probe, now, posts, comments, votes, kv, magic_tokens, windowLog, cast>>

\* ------------------------------------------------------------ handleUpdateHotness
\* c = 2
HotnessOffsetHours == 2

\* (m - created_at) / 3600000.0 in thousandths, for an instant m in
\* milliseconds.  The quotient is exact on the grid the model keeps: the clock
\* reads multiples of 18 s (1000 * 18 ms is 5 thousandths of an hour) at full
\* seconds, and created_at is a multiple of 3600.
MilliHours(m, created_at) == (m.sec \div 18) * 5 - created_at \div 3600

\* (score + w * comments_count) / POWER((now - created_at) / 3600000.0 + c, alpha)
\* with w = 0.2, c = 2, alpha = 1.5 and now = Date.now().
hotnessExpr(row, t) ==
  Real(5 * row.score + row.comments_count,
       MilliHours(DateNow(t), row.created_at) + 1000 * HotnessOffsetHours)

\* Every row is in the window.
hotnessWindow_AllRows(created_at, t) == TRUE

\* WHERE created_at > ?, bound to now - 7 * 24 * 60 * 60 * 1000.
hotnessWindow(created_at, t) ==
  GreaterThanMillis(created_at, MinusSeconds(DateNow(t), WeekSeconds))

\* The whole handler: the one UPDATE.
handleUpdateHotness(r) ==
  /\ FreeSlot(r)
  /\ posts' = [p \in DOMAIN posts |->
       IF hotnessWindow(posts[p].created_at, now)
       THEN [posts[p] EXCEPT !.hotness = hotnessExpr(posts[p], now)]
       ELSE posts[p]]
  /\ req' = [req EXCEPT ![r] =
       Respond([IdleReq EXCEPT !.op = "handleUpdateHotness", !.wroteDb = (posts' # posts)], 200)]
  /\ UNCHANGED <<users, post_bodies, board, probe, now, comments, votes, kv, magic_tokens, windowLog, cast>>

\* The SET expression of the UPDATE evaluated on the row of post p.
EvalHotness(p) ==
  /\ p \in DOMAIN posts
  /\ probe' = [post |-> p, at |-> now, value |-> hotnessExpr(posts[p], now)]
  /\ UNCHANGED <<users, post_bodies, board, now, posts, comments, votes, kv, magic_tokens, req, windowLog, cast>>

\* ------------------------------------------------------------------ clock
Tick ==
  /\ now < MaxTicks * TickSeconds
  /\ now' = now + TickSeconds
  /\ UNCHANGED <<users, post_bodies, board, probe, posts, comments, votes, kv, magic_tokens, req, windowLog, cast>>

\* An hour passes on a site that is in service.
TickHour ==
  /\ now < Epoch + MaxTicks * HourSeconds
  /\ now' = now + HourSeconds
  /\ UNCHANGED <<users, post_bodies, board, probe, posts, comments, votes, kv, magic_tokens, req, windowLog, cast>>

\* The lifetime of a magic token passes.
TickTokenTtl ==
  /\ now < MaxTicks * (MagicTokenTtlMs \div 1000)
  /\ now' = now + MagicTokenTtlMs \div 1000
  /\ UNCHANGED <<users, post_bodies, board, probe, posts, comments, votes, kv, magic_tokens, req, windowLog, cast>>

\* A day passes on a site that is in service.
TickDay ==
  /\ now < Epoch + MaxTicks * DaySeconds
  /\ now' = now + DaySeconds
  /\ UNCHANGED <<users, post_bodies, board, probe, posts, comments, votes, kv, magic_tokens, req, windowLog, cast>>

\* ---------------------------------------------------------- initial states
\* The hotness expression has not been evaluated yet.
NoProbe == [post |-> 0, at |-> 0, value |-> Zero]

\* No leaderboard has been requested yet.
NoBoard == [period |-> "none", limit |-> 0, offset |-> 0, authors |-> << >>]

CastKeys == Users \X {"post", "comment"} \X EntityIds

\* u1 has submitted post 1 and u2 has commented on it (comment 1): both
\* counters stand at 1.  In the "busy" start u1 has also spent 99 of the
\* hour's votes, all of them up votes on post 1.
SeedKv ==
  (<<"post_limit", "u1">> :> [value |-> toString(1), expires |-> PostWindow])
  @@ (<<"comment_limit", "u2">> :> [value |-> toString(1), expires |-> CommentWindow])

InitShared ==
  /\ now = 0
  /\ comments = (1 :> CommentRow(1, "u2", 0))
  /\ magic_tokens = {}
  /\ users = SeedUsers
  /\ post_bodies = << >>
  /\ board = NoBoard
  /\ probe = NoProbe
  /\ req = [r \in Req |-> IdleReq]

InitFresh ==
  /\ InitShared
  /\ posts = (1 :> PostRow("link", "u1", "h1", 0, "t1"))
  /\ votes = {}
  /\ kv = SeedKv
  /\ windowLog = << >>
  /\ cast = [k \in CastKeys |-> << >>]

InitBusy ==
  /\ InitShared
  /\ posts = (1 :> [PostRow("link", "u1", "h1", 0, "t1") EXCEPT !.score = 1])
  /\ votes = {VoteRow("u1", "post", 1, "up")}
  /\ kv = (<<"vote_limit", "u1">> :>
             [value |-> toString(VoteLimit - 1), expires |-> VoteWindow]) @@ SeedKv
  /\ windowLog = (<<"vote_limit", "u1">> :>
                    [start |-> 0, n |-> VoteLimit - 1, ok |-> VoteLimit - 1])
  /\ cast = [k \in CastKeys |-> IF k = <<"u1", "post", 1>> THEN <<"up">> ELSE << >>]

InitVotes == InitFresh \/ InitBusy

\* The tables and the cache as the schema creates them, with the accounts
\* that send requests signed up.
InitEmpty ==
  /\ now = 0
  /\ posts = << >>
  /\ comments = << >>
  /\ votes = {}
  /\ kv = << >>
  /\ magic_tokens = {}
  /\ users = SeedUsers
  /\ post_bodies = << >>
  /\ board = NoBoard
  /\ probe = NoProbe
  /\ req = [r \in Req |-> IdleReq]
  /\ windowLog = << >>
  /\ cast = [k \in CastKeys |-> << >>]

\* A site in service at Epoch.  u1 posted a link an hour ago and u2 commented
\* on it; u2 wrote a self post six days ago; u3 posted a link eight days ago
\* and u1 commented on it then.  Any of five votes may have been cast, and each
\* score is the count the vote handler has written for it.
BoardVotes ==
  {VoteRow("u2", "post", 1, "up"), VoteRow("u3", "post", 1, "down"),
   VoteRow("u3", "post", 2, "up"), VoteRow("u1", "post", 3, "up"),
   VoteRow("u1", "comment", 1, "up")}

InitBoard ==
  /\ now = Epoch
  /\ votes \in SUBSET BoardVotes
  /\ posts =
       (1 :> [PostRow("link", "u1", "h1", Epoch - HourSeconds, "t1")
                EXCEPT !.comments_count = 1, !.score = NewScore(votes, "post", 1)])
       @@ (2 :> [PostRow("self", "u2", "", Epoch - 6 * DaySeconds, "t1")
                   EXCEPT !.score = NewScore(votes, "post", 2)])
       @@ (3 :> [PostRow("link", "u3", "h3", Epoch - 8 * DaySeconds, "t1")
                   EXCEPT !.comments_count = 1, !.score = NewScore(votes, "post", 3)])
  /\ comments =
       (1 :> [CommentRow(1, "u2", Epoch - HourSeconds)
                EXCEPT !.score = NewScore(votes, "comment", 1)])
       @@ (2 :> [CommentRow(3, "u1", Epoch - 8 * DaySeconds)
                   EXCEPT !.score = NewScore(votes, "comment", 2)])
  /\ post_bodies = (2 :> "m1")
  /\ kv = << >>
  /\ magic_tokens = {}
  /\ users = SeedUsers
  /\ board = NoBoard
  /\ probe = NoProbe
  /\ req = [r \in Req |-> IdleReq]
  /\ windowLog = << >>
  /\ cast = [k \in CastKeys |-> << >>]

\* A site in service at Epoch.  An hour ago u1 wrote a self post (1) and u2
\* posted a link (3); u2 commented on post 1 and voted it up at once, so that
\* the vote and comment counters have just expired.  u2's link post 2 is eight
\* days old, was voted down by u1, and has the hotness the seed data gave it.
InitHot ==
  /\ now = Epoch
  /\ posts =
       (1 :> [PostRow("self", "u1", "", Epoch - HourSeconds, "t1")
                EXCEPT !.score = 1, !.comments_count = 1])
       @@ (2 :> [PostRow("link", "u2", "h2", Epoch - 8 * DaySeconds, "t1")
                   EXCEPT !.score = -1, !.hotness = Real(5, 4000)])
       @@ (3 :> PostRow("link", "u2", "h3", Epoch - HourSeconds, "t1"))
  /\ comments = (1 :> CommentRow(1, "u2", Epoch - HourSeconds))
  /\ votes = {VoteRow("u2", "post", 1, "up"), VoteRow("u1", "post", 2, "down")}
  /\ post_bodies = (1 :> "m1")
  /\ kv = (<<"post_limit", "u1">> :>
             [value |-> toString(1), expires |-> Epoch - HourSeconds + PostWindow])
          @@ (<<"post_limit", "u2">> :>
                [value |-> toString(1), expires |-> Epoch - HourSeconds + PostWindow])
  /\ magic_tokens = {}
  /\ users = SeedUsers
  /\ board = NoBoard
  /\ probe = NoProbe
  /\ req = [r \in Req |-> IdleReq]
  /\ windowLog = << >>
  /\ cast = [k \in CastKeys |->
               IF k = <<"u2", "post", 1>> THEN <<"up">>
               ELSE IF k = <<"u1", "post", 2>> THEN <<"down">> ELSE << >>]

\* Rows the hotness expression is evaluated on: post 1, created an hour or
\* three days before Epoch, with a score and a comments_count as the vote and
\* comment handlers write them, or as the seed data sets them (10 and 5).
ExprScores == {-1, 0, 1, 10}
ExprCounts == {0, 1, 5}
ExprAges == {HourSeconds, 3 * DaySeconds}

InitExpr ==
  /\ now = Epoch
  /\ \E score \in ExprScores, count \in ExprCounts, age \in ExprAges :
       /\ posts = (1 :> [PostRow("link", "u1", "h1", Epoch - age, "t1")
                           EXCEPT !.score = score, !.comments_count = count])
       /\ votes = IF score = 1 THEN {VoteRow("u2", "post", 1, "up")}
                  ELSE IF score = -1 THEN {VoteRow("u2", "post", 1, "down")}
                  ELSE {}
       /\ comments = IF count = 1 THEN (1 :> CommentRow(1, "u2", Epoch - age)) ELSE << >>
  /\ post_bodies = << >>
  /\ kv = << >>
  /\ magic_tokens = {}
  /\ users = SeedUsers
  /\ board = NoBoard
  /\ probe = NoProbe
  /\ req = [r \in Req |-> IdleReq]
  /\ windowLog = << >>
  /\ cast = [k \in CastKeys |-> << >>]

\* ------------------------------------------------------------ specifications
VoteStart(r) ==
  \E op \in VoteOps, u \in Callers, id \in EntityIds, vt \in VoteInputs :
    VoteBegin(r, op, u, id, vt)

VoteStep(r) ==
  \/ RateGet(r)
  \/ RatePut(r)
  \/ VoteUpsert(r)
  \/ VoteRescan(r)
  \/ VoteWriteScore(r)

Next == \E r \in Req : VoteStart(r) \/ VoteStep(r)

\* Requests served one after another, with the clock running between them.
Quiet == \A r \in Req : ~InFlight(r)

NextSeq == \/ \E r \in Req : (Quiet /\ VoteStart(r)) \/ VoteStep(r)
           \/ (Quiet /\ Tick)

\* Concurrent requests over storage whose statements may fail.
NextFault == \E r \in Req : VoteStart(r) \/ VoteStep(r) \/ StorageError(r)

Spec == InitBusy /\ [][Next]_vars

SpecSeq == InitVotes /\ [][NextSeq]_vars

SpecFault == InitFresh /\ [][NextFault]_vars

\* Concurrent post submissions on an empty site.
SubmitStart(r) ==
  \E u \in Callers, type \in PostTypeInputs, title \in {NoTitle, "t1"},
     url \in Urls \cup {NoUrl}, content \in {NoContent, "m1"} :
    SubmitBegin(r, u, type, title, url, content)

SubmitStep(r) ==
  \/ SubmitDuplicateCheck(r)
  \/ SubmitInsertPost(r)
  \/ SubmitInsertBody(r)
  \/ SubmitPutCounter(r)

NextPost == \/ \E r \in Req : SubmitStart(r) \/ SubmitStep(r)
            \/ Tick

SpecPost == InitEmpty /\ [][NextPost]_vars

\* Concurrent post submissions over storage whose statements may fail.
NextPostFault == \E r \in Req : SubmitStart(r) \/ SubmitStep(r) \/ SubmitStorageError(r)

SpecPostFault == InitEmpty /\ [][NextPostFault]_vars

\* Post submissions and rate-limit-status requests on an empty site.
NextStatus ==
  \/ \E r \in Req : \/ SubmitStart(r)
                    \/ SubmitStep(r)
                    \/ \E u \in Callers : handleGetRateLimitStatus(r, u)
  \/ Tick

SpecStatus == InitEmpty /\ [][NextStatus]_vars

\* Magic-link requests on an empty site.
NextLogin == \/ \E email \in EmailInputs : handleLogin(email)
             \/ Tick

SpecLogin == InitEmpty /\ [][NextLogin]_vars

\* A site with one account.  One magic link is requested, for the address of
\* the account or for a new address, and verification requests present it
\* while the clock runs.
InitVerify ==
  /\ now = 0
  /\ posts = << >>
  /\ comments = << >>
  /\ votes = {}
  /\ kv = << >>
  /\ magic_tokens = {}
  /\ users = {UserRow("u1", EmailOf("u1"))}
  /\ post_bodies = << >>
  /\ board = NoBoard
  /\ probe = NoProbe
  /\ req = [r \in Req |-> IdleReq]
  /\ windowLog = << >>
  /\ cast = [k \in CastKeys |-> << >>]

NextVerify ==
  \/ \E email \in Emails : magic_tokens = {} /\ handleLogin(email)
  \/ \E r \in Req, token \in TokenInputs : VerifyBegin(r, token)
  \/ \E r \in Req : \/ VerifyMarkUsed(r)
                     \/ VerifySelectUser(r)
                     \/ VerifyInsertUser(r)
                     \/ VerifySession(r)
  \/ TickTokenTtl

SpecVerify == InitVerify /\ [][NextVerify]_vars

\* Leaderboard requests and clicks on a site in service, over days.
NextBoard ==
  \/ \E r \in Req, id \in ClickIds : handleTrackClick(r, id)
  \/ \E r \in Req, period \in Periods, limit \in LimitParams, offset \in OffsetParams :
       handleGetLeaderboard(r, period, limit, offset)
  \/ TickDay

SpecBoard == InitBoard /\ [][NextBoard]_vars

\* The hotness expression evaluated on one row as the hours pass.
NextExpr ==
  \/ \E p \in EntityIds : EvalHotness(p)
  \/ TickHour

SpecExpr == InitExpr /\ [][NextExpr]_vars

\* Votes, comments, clicks, edits and runs of the hourly recalculator, served
\* one after another as the hours pass.  The requests are those of signed-in
\* users on the posts of the site, with a title and a body.
HotVoteStart(r) ==
  \E op \in VoteOps, u \in Users, vt \in VoteTypes : VoteBegin(r, op, u, 1, vt)

HotCommentStart(r) ==
  \E u \in Users, parent \in {0, 2} : CommentBegin(r, u, 1, TRUE, parent)

HotEditStart(r) ==
  \E u \in Users, id \in {1, 3}, content \in {NoContent, "m1"} : EditBegin(r, u, id, "t1", content)

CommentStep(r) ==
  \/ CommentParentCheck(r)
  \/ CommentInsert(r)
  \/ CommentCount(r)
  \/ CommentFetch(r)

EditStep(r) == EditUpdate(r) \/ EditBody(r)

NextHot ==
  \/ \E r \in Req :
       \/ Quiet /\ HotVoteStart(r)
       \/ Quiet /\ HotCommentStart(r)
       \/ Quiet /\ HotEditStart(r)
       \/ Quiet /\ \E id \in ClickIds : handleTrackClick(r, id)
       \/ Quiet /\ handleUpdateHotness(r)
       \/ VoteStep(r)
       \/ CommentStep(r)
       \/ EditStep(r)
  \/ Quiet /\ TickHour

SpecHot == InitHot /\ [][NextHot]_vars

\* Concurrent comment submissions on the site above, over storage whose
\* statements may fail.
CommentStart(r) ==
  \E u \in Callers, post \in {1, 4}, body \in BOOLEAN, parent \in ParentIds :
    CommentBegin(r, u, post, body, parent)

NextComment ==
  \E r \in Req : \/ CommentStart(r)
                 \/ RateGet(r)
                 \/ RatePut(r)
                 \/ CommentStep(r)
                 \/ CommentStorageError(r)

SpecComment == InitHot /\ [][NextComment]_vars

\* Concurrent clicks and post votes on the site above.
NextClick ==
  \E r \in Req : \/ \E id \in ClickIds : ClickBegin(r, id)
                 \/ ClickUpdate(r)
                 \/ \E u \in Users, vt \in VoteTypes : VoteBegin(r, "handleVotePost", u, 2, vt)
                 \/ VoteStep(r)

SpecClick == InitHot /\ [][NextClick]_vars

\* Edits and reads of the posts of the site above, by their authors, by other
\* users and without a session, as the hours pass between requests.
EditStart(r) ==
  \E u \in Callers, id \in PostIds, content \in {NoContent, "m2"} :
    EditBegin(r, u, id, "t2", content)

NextEdit ==
  \/ \E r \in Req : \/ EditStart(r)
                    \/ EditStep(r)
                    \/ \E u \in Callers, id \in PostIds : handleGetPost(r, u, id)
  \/ Quiet /\ TickHour

SpecEdit == InitHot /\ [][NextEdit]_vars

\* ------------------------------------------------------------------ claims
Entities == {<<"post", id>> : id \in DOMAIN posts} \cup {<<"comment", id>> : id \in DOMAIN comments}

\* The ledger's count for an entity: its up rows minus its down rows.
LedgerCount(rows, t, id) ==
  Cardinality({v \in rows : v.entity_type = t /\ v.entity_id = id /\ v.vote_type = "up"})
    - Cardinality({v \in rows : v.entity_type = t /\ v.entity_id = id /\ v.vote_type = "down"})

ScoreMatchesLedger(e) ==
  StoredScore(posts, comments, e[1], e[2]) = LedgerCount(votes, e[1], e[2])

\* The step in which request r's score write lands and the handler answers 200.
Completes(r) == req[r].pc = "write" /\ req'[r].pc = "done" /\ req'[r].status = 200

\* C1 (as claimed): whenever a vote request completes with 200, the stored
\* score of its entity equals the ledger's up rows minus its down rows, also
\* while other requests on the entity are between their insert and score write.
C1_ScoreExactAtCompletion ==
  [][\A r \in Req : Completes(r) =>
       StoredScore(posts', comments', EntityType(req[r].op), req[r].id)
         = LedgerCount(votes', EntityType(req[r].op), req[r].id)]_vars

\* C1 (amended): whenever a vote request completes with 200 and no other
\* request has written a vote row for the same entity between this request's
\* recount and its score write, the stored score of the entity equals the
\* ledger's up rows minus its down rows.
C1_ScoreExactUnlessOvertaken ==
  [][\A r \in Req : (Completes(r) /\ ~req[r].stale) =>
       StoredScore(posts', comments', EntityType(req[r].op), req[r].id)
         = LedgerCount(votes', EntityType(req[r].op), req[r].id)]_vars

\* A vote on post 1 has completed, not overtaken, with the exact score, while
\* another user's vote on post 1 is past its insert and before its score write.
C1_Witness ==
  \E r, q \in Req :
    /\ req[r].pc = "done" /\ req[r].status = 200 /\ ~req[r].stale
    /\ req[r].op = "handleVotePost" /\ req[r].id = 1
    /\ req[q].pc \in {"rescan", "write"} /\ req[q].op = "handleVotePost" /\ req[q].id = 1
    /\ req[q].user # req[r].user
    /\ ScoreMatchesLedger(<<"post", 1>>)

\* C2: whenever no vote request is in flight, every entity's stored score
\* equals the ledger's up rows minus its down rows.
C2_ConvergesWhenQuiet == Quiet => \A e \in Entities : ScoreMatchesLedger(e)

RowsOf(rows, u, t, id) ==
  {v \in rows : v.user_id = u /\ v.entity_type = t /\ v.entity_id = id}

\* C3: the ledger never holds two rows for one (user, entity type, entity id),
\* and no step removes a (user, entity type, entity id) that has a row.
C3_OneRowPerVoter ==
  [][\A k \in CastKeys :
       /\ Cardinality(RowsOf(votes', k[1], k[2], k[3])) <= 1
       /\ RowsOf(votes, k[1], k[2], k[3]) # {} => RowsOf(votes', k[1], k[2], k[3]) # {}]_vars

\* u1 has voted up and then down on post 1, and holds the single row "down".
C3_Witness ==
  /\ cast[<<"u1", "post", 1>>] = <<"up", "down">>
  /\ RowsOf(votes, "u1", "post", 1) = {VoteRow("u1", "post", 1, "down")}

\* What the last vote a user cast on an entity is worth.
Contribution(dirs) ==
  IF dirs = << >> THEN 0 ELSE IF dirs[Len(dirs)] = "up" THEN 1 ELSE -1

RECURSIVE SumContributions(_, _)
SumContributions(us, e) ==
  IF us = {} THEN 0
  ELSE LET u == CHOOSE x \in us : TRUE
       IN Contribution(cast[<<u, e[1], e[2]>>]) + SumContributions(us \ {u}, e)

\* C4: with requests served one after another, between requests every
\* entity's score is the sum over the users of +1 or -1 for the last direction
\* each has cast on it, however many votes the user has cast.
C4_LastDirectionCounts ==
  Quiet => \A e \in Entities :
    StoredScore(posts, comments, e[1], e[2]) = SumContributions(Users, e)

\* u1 alone has voted on post 1, up and then down, and its score is -1.
C4_Witness ==
  /\ Quiet
  /\ cast[<<"u1", "post", 1>>] = <<"up", "down">>
  /\ cast[<<"u2", "post", 1>>] = << >>
  /\ posts[1].score = -1

\* C5: a vote request that has ended either answered 200 (its row is in the
\* ledger and the score was rewritten from the recount made after it) or has
\* changed neither the ledger nor a score.
C5_NoPartialApplication ==
  \A r \in Req :
    (req[r].pc = "done" /\ req[r].op \in VoteOps) =>
      (req[r].status = 200 \/ ~req[r].wroteDb)

\* C6: a vote request answered 401, 400, 404 or 429 has written neither the
\* ledger, nor a score, nor a rate-limit counter.
C6_RejectedVoteWritesNothing ==
  \A r \in Req :
    (req[r].pc = "done" /\ req[r].op \in VoteOps /\ req[r].status \in {401, 400, 404, 429}) =>
      (~req[r].wroteDb /\ ~req[r].wroteKv)

\* A vote request has been answered 429.
C6_Witness == \E r \in Req : req[r].op \in VoteOps /\ req[r].status = 429

Min(a, b) == IF a < b THEN a ELSE b

\* C7: with calls made one after another, of the n calls made on a key since
\* its counter was created exactly the first min(n, limit) were allowed, and a
\* rejected call has not written the counter.
C7_FirstLimitCallsAllowed ==
  /\ \A k \in DOMAIN windowLog : windowLog[k].ok = Min(windowLog[k].n, VoteLimit)
  /\ \A r \in Req : (req[r].pc = "done" /\ req[r].status = 429) => ~req[r].wroteKv

\* u1's counter has seen limit + 1 calls, the last one rejected.
C7_Witness ==
  /\ <<"vote_limit", "u1">> \in DOMAIN windowLog
  /\ windowLog[<<"vote_limit", "u1">>].n = VoteLimit + 1
  /\ windowLog[<<"vote_limit", "u1">>].ok = VoteLimit
  /\ \E r \in Req : req[r].status = 429

\* C8: a key's counter expires one window after the first allowed action of
\* its window, whatever is allowed later, and a call is rejected only before
\* that instant.
C8_FixedWindow ==
  [][/\ \A k \in DOMAIN windowLog' :
          kv'[k].expires = windowLog'[k].start + VoteWindow
     /\ \A r \in Req :
          (req[r].pc = "rl_get" /\ req'[r].pc = "done" /\ req'[r].status = 429) =>
            now < windowLog[RateKey(req[r].op, req[r].user)].start + RateWindow(req[r].op)]_vars

Abs(x) == IF x < 0 THEN -x ELSE x

\* C9: two submissions of one user that were both answered 200 created posts
\* whose created_at lie at least 24 hours apart.
C9_OnePostPerDay ==
  \A r, q \in Req :
    ( /\ r # q
      /\ req[r].op = "handleSubmitPost" /\ req[r].status = 200
      /\ req[q].op = "handleSubmitPost" /\ req[q].status = 200
      /\ req[r].user = req[q].user )
    => Abs(posts[req[r].id].created_at - posts[req[q].id].created_at) >= PostWindow

\* C10: no address has more than 3 magic tokens created within one hour.
C10_ThreeMagicLinksPerHour ==
  \A t \in magic_tokens :
    Cardinality({s \in magic_tokens :
                   /\ s.email = t.email
                   /\ s.created_at <= t.created_at
                   /\ t.created_at - s.created_at < MagicLinkWindow}) <= MagicLinkLimit

\* C11: a post submission that has ended with 400, 409 or 500 has not written
\* the post_limit counter, and a step that writes the counter is made by a
\* request whose post row, and for a self post whose body row, is in the
\* database.
C11_CounterOnlyOnSuccess ==
  [][/\ \A r \in Req :
          (req'[r].pc = "done" /\ req'[r].op = "handleSubmitPost"
             /\ req'[r].status \in {400, 409, 500}) => ~req'[r].wroteKv
     /\ kv' # kv =>
          \E r \in Req :
            /\ req[r].op = "handleSubmitPost" /\ req[r].pc = "sp_put"
            /\ req[r].id \in DOMAIN posts
            /\ posts[req[r].id].author_id = req[r].user
            /\ posts[req[r].id].type = "self" => req[r].id \in DOMAIN post_bodies
            /\ \A k \in DOMAIN kv' :
                 (k \notin DOMAIN kv \/ kv'[k] # kv[k]) => k = <<"post_limit", req[r].user>>]_vars

\* A self post has been accepted, with its body row and the counter written,
\* and another submission, whose post row was inserted, has ended with 500
\* without writing the counter.
C11_Witness ==
  \E r, q \in Req :
    /\ req[r].op = "handleSubmitPost" /\ req[r].status = 200 /\ req[r].wroteKv
    /\ posts[req[r].id].type = "self" /\ req[r].id \in DOMAIN post_bodies
    /\ req[q].op = "handleSubmitPost" /\ req[q].status = 500
    /\ req[q].wroteDb /\ ~req[q].wroteKv

\* The step in which request r asks for the leaderboard and is answered.
Asks(r) == req[r].pc = "idle" /\ req'[r].op = "handleGetLeaderboard"

\* C12: no author of a leaderboard response has a total_score of zero or less.
C12_OnlyPositiveScores ==
  \A i \in DOMAIN board.authors : board.authors[i].total_score > 0

\* A whole leaderboard (offset 0, nothing cut by the limit) that returns some
\* of the users and omits the others.
C12_Witness ==
  /\ board.period = "total" /\ board.limit = LimitCap /\ board.offset = 0
  /\ Len(board.authors) \in 1..(Cardinality(UserRows) - 1)

\* Whether content created at created_at lies within the 7 days before t.
InLastWeek(created_at, t) == created_at > t - WeekSeconds /\ created_at <= t

\* The 'up' rows of the ledger on the posts of u that satisfy In.
UpRowsOnPosts(u, In(_)) ==
  {v \in votes : /\ v.vote_type = "up" /\ v.entity_type = "post"
                 /\ \E p \in DOMAIN posts :
                      p = v.entity_id /\ posts[p].author_id = u /\ In(posts[p].created_at)}

\* The 'up' rows of the ledger on the comments of u that satisfy In.
UpRowsOnComments(u, In(_)) ==
  {v \in votes : /\ v.vote_type = "up" /\ v.entity_type = "comment"
                 /\ \E c \in DOMAIN comments :
                      c = v.entity_id /\ comments[c].user_id = u /\ In(comments[c].created_at)}

\* One element for every click on a post of u that satisfies In.
ClicksOnPosts(u, In(_)) ==
  UNION {{<<p, k>> : k \in 1..posts[p].clicks} :
           p \in {q \in DOMAIN posts : posts[q].author_id = u /\ In(posts[q].created_at)}}

\* post up votes + 0.5 x comment up votes + clicks, in halves.
ExpectedScore(u, In(_)) ==
  2 * Cardinality(UpRowsOnPosts(u, In)) + Cardinality(UpRowsOnComments(u, In))
    + 2 * Cardinality(ClicksOnPosts(u, In))

Always(created_at) == TRUE

ThisWeek(created_at) == InLastWeek(created_at, now)

\* C13: a weekly leaderboard asked for in full (offset 0, nothing cut by the
\* limit) returns exactly the users whose content created within the 7 days
\* before now earns a positive score, each with that score.
C13_WeeklyCountsRecentContent ==
  [][\A r \in Req :
       (Asks(r) /\ board'.period = "weekly" /\ board'.limit = LimitCap /\ board'.offset = 0) =>
         /\ {board'.authors[i].id : i \in DOMAIN board'.authors}
              = {u \in UserRows : ExpectedScore(u, ThisWeek) > 0}
         /\ \A i \in DOMAIN board'.authors :
              board'.authors[i].total_score = ExpectedScore(board'.authors[i].id, ThisWeek)]_vars

\* C14: every author of a leaderboard for period = total has as total_score
\* the up rows on the author's posts, plus half the up rows on the author's
\* comments, plus the clicks of the author's posts, as the tables stand when
\* the request is served.
C14_TotalScoreFormula ==
  [][\A r \in Req :
       (Asks(r) /\ board'.period = "total") =>
         \A i \in DOMAIN board'.authors :
           board'.authors[i].total_score = ExpectedScore(board'.authors[i].id, Always)]_vars

\* The leaderboard lists u2 with 1.5 (an up vote on a post and one on a
\* comment) and u1 with 2 (an up vote on a post and a click on it).
C14_Witness ==
  /\ board.period = "total"
  /\ posts[1].clicks = 1
  /\ \E i, j \in DOMAIN board.authors :
       /\ board.authors[i] = [id |-> "u2", total_score |-> 3]
       /\ board.authors[j] = [id |-> "u1", total_score |-> 4]

\* The users with a positive score for the period, in an order of
\* non-increasing score.
Ranked(period) ==
  LET In(created_at) == period = "weekly" => InLastWeek(created_at, now)
      rows == {[id |-> u, total_score |-> ExpectedScore(u, In)] :
                 u \in {x \in UserRows : ExpectedScore(x, In) > 0}}
  IN {f \in [1..Cardinality(rows) -> rows] :
        /\ \A i, j \in DOMAIN f : i # j => f[i] # f[j]
        /\ \A i, j \in DOMAIN f : i < j => f[i].total_score >= f[j].total_score}

\* Elements offset .. offset + limit - 1 of a list, counted from 0.
Slice(rows, offset, limit) ==
  [i \in 1..Min(limit, Len(rows) - offset) |-> rows[offset + i]]

\* C15: the authors of every leaderboard response are in non-increasing
\* total_score order, and the authors of a response for (limit, offset) are
\* the elements offset .. offset + min(limit, 100) - 1 of the users with a
\* positive score, ranked by non-increasing score (checked on period = total).
C15_PageIsSliceOfRanking ==
  [][\A r \in Req, period \in Periods, limit \in LimitParams, offset \in OffsetParams :
       handleGetLeaderboard(r, period, limit, offset) =>
         /\ \A i, j \in DOMAIN board'.authors :
              i < j => board'.authors[i].total_score >= board'.authors[j].total_score
         /\ period = "total" =>
              \E rows \in Ranked(period) :
                board'.authors = Slice(rows, offset, Min(limit, LimitCap))]_vars

AgeHoursMilli(created_at, t) == ((t - created_at) \div 18) * 5

\* (score + 0.2 x comments_count) / ((age_hours + 2)^1.5)
FormulaHotness(row, t) ==
  Real(5 * row.score + row.comments_count, AgeHoursMilli(row.created_at, t) + 2000)

Runs(r) == req[r].pc = "idle" /\ req'[r].op = "handleUpdateHotness"

\* C18: a run of the recalculator at `now` gives every post created within
\* the 7 days before now the hotness computed from its row at now.
C18_EveryRecentPostRewritten ==
  [][\A r \in Req : Runs(r) =>
       \A p \in DOMAIN posts :
         InLastWeek(posts[p].created_at, now) =>
           posts'[p].hotness = hotnessExpr(posts[p], now)]_vars

\* C19: a run of the recalculator leaves the hotness of every post created
\* more than 7 days before now as it was, changes no other field of any post,
\* adds and removes no post, and changes no vote row, comment, body or counter.
C19_RecalculatorFrame ==
  [][\A r \in Req : Runs(r) =>
       /\ DOMAIN posts' = DOMAIN posts
       /\ \A p \in DOMAIN posts :
            /\ ~InLastWeek(posts[p].created_at, now) => posts'[p].hotness = posts[p].hotness
            /\ [posts'[p] EXCEPT !.hotness = Zero] = [posts[p] EXCEPT !.hotness = Zero]
       /\ votes' = votes /\ comments' = comments
       /\ post_bodies' = post_bodies /\ kv' = kv]_vars

\* The recalculator has run, a later hour has come and it has run again:
\* post 2, eight days old with score -1, still has the hotness it had before.
C19_Witness ==
  /\ \A r \in Req : req[r].op = "handleUpdateHotness" /\ req[r].pc = "done"
  /\ now > Epoch
  /\ posts[2].score = -1
  /\ posts[2].hotness = Real(5, 4000)

\* C20: a step that changes the hotness of a post is a run of the
\* recalculator: no step of a vote, a comment, a click or an edit changes it.
C20_OnlyRecalculatorWritesHotness ==
  [][(\E p \in DOMAIN posts : posts'[p].hotness # posts[p].hotness)
       => \E r \in Req : Runs(r)]_vars

\* After a run of the recalculator a vote on post 1 has changed its score,
\* and its hotness is what it was at the run.
C20_Witness ==
  /\ req[1].op = "handleUpdateHotness"
  /\ req[2].op = "handleVotePost" /\ req[2].status = 200 /\ req[2].id = 1
  /\ posts[1].score # 1
  /\ posts[1].hotness = Zero

\* ------------------------------------------------------------ magic tokens
\* The verification requests that were answered with a session for token k.
SessionsFor(k) ==
  {r \in Req : /\ req[r].op = "handleVerifyLogin" /\ req[r].pc = "done"
               /\ req[r].status = 200 /\ req[r].id = k}

\* C21: across any interleaving of verification requests that present the
\* same magic-link token, at most one request obtains a session token.
C21_TokenUsedOnce ==
  \A row \in magic_tokens : Cardinality(SessionsFor(row.token)) <= 1

\* Whether request r presented token row at or after its issue time + 15 minutes.
PresentedLate(r, row) ==
  /\ req[r].op = "handleVerifyLogin"
  /\ req[r].id = row.token
  /\ req[r].at >= row.created_at + 15 * 60

\* C22: a verification request made at or after issue time + 15 minutes is
\* rejected, creates no user, yields no session and leaves the token's used
\* flag unchanged.
C22_ExpiredTokenRejected ==
  \A r \in Req, row \in magic_tokens :
    PresentedLate(r, row) =>
      /\ req[r].pc = "done" /\ req[r].status = 400
      /\ ~req[r].wroteDb /\ req[r].user = Anon

\* A token is presented exactly 15 minutes after it was issued, unused.
C22_Witness ==
  \E r \in Req, row \in magic_tokens :
    /\ PresentedLate(r, row) /\ req[r].at = row.created_at + 15 * 60
    /\ ~row.used /\ req[r].status = 400

\* ------------------------------------------------------------ duplicate URLs
\* C23: no two link posts of different users ever share the same normalized
\* URL hash, for any interleaving of concurrent submissions by different users.
C23_NoDuplicateUrl ==
  \A p, q \in DOMAIN posts :
    (/\ posts[p].type = "link" /\ posts[q].type = "link"
     /\ posts[p].author_id # posts[q].author_id)
      => posts[p].normalized_url_hash # posts[q].normalized_url_hash

\* ------------------------------------------------------------ comments
\* C24: a comment submission rejected as invalid or not found (400 or 404)
\* has inserted no comment row, left comments_count as it was, and has not
\* consumed the user's comment rate-limit counter.
C24_RejectedCommentMutatesNothing ==
  \A r \in Req :
    (/\ req[r].op = "handleSubmitComment" /\ req[r].pc = "done"
     /\ req[r].status \in {400, 404})
      => ~req[r].wroteDb /\ ~req[r].wroteKv

\* ------------------------------------------------------------ rate limiter
\* The limit of the counter a key names.
LimitOf(key) == IF key[1] = "comment_limit" THEN CommentLimit ELSE VoteLimit

\* C25: for any interleaving of concurrent requests by one user, the number
\* of actions the rate limiter admitted within one window of a counter never
\* exceeds the counter's limit (100 votes, 10 comments).
C25_AdmittedWithinLimit ==
  \A k \in DOMAIN windowLog : windowLog[k].ok <= LimitOf(k)

\* The comment rows of post p.
CommentsOf(p) == {c \in DOMAIN comments : comments[c].post_id = p}

CommentInFlight == \E r \in Req : req[r].op = "handleSubmitComment" /\ InFlight(r)

\* C26: in every state where no comment submission is in flight, each post's
\* comments_count equals the number of comment rows whose post_id is that
\* post, after completed submissions that succeeded, were rejected or failed
\* part-way by a storage error.
C26_CommentsCountMatchesRows ==
  ~CommentInFlight =>
    \A p \in DOMAIN posts : posts[p].comments_count = Cardinality(CommentsOf(p))

\* ------------------------------------------------------------ vote frame
\* Whether ledger row v is user u's row for entity (t, id).
IsRowOf(v, u, t, id) == v.user_id = u /\ v.entity_type = t /\ v.entity_id = id

\* The steps of request r that write: its INSERT OR REPLACE and its score UPDATE.
Upserts(r) == req[r].op \in VoteOps /\ req[r].pc = "upsert" /\ req'[r].pc = "rescan"
Recounts(r) == req[r].op \in VoteOps /\ req[r].pc = "rescan" /\ req'[r].pc = "write"
WritesScore(r) == req[r].op \in VoteOps /\ req[r].pc = "write" /\ req'[r].pc = "done"

\* Rows a and b differ in nothing but their score.
SameButScore(a, b) == [a EXCEPT !.score = 0] = [b EXCEPT !.score = 0]

\* C27: a vote by user U on entity E changes only U's ledger row for (E's
\* type, E's id) and E's own score; the rows of other users, U's rows for
\* other entities and the score of every other post and comment stay as they
\* were, also when a post and a comment carry the same id, and the score
\* written for E counts the rows of E's type only.
C27_VoteFrame ==
  [][\A r \in Req :
       LET t == EntityType(req[r].op)
           id == req[r].id
       IN /\ Upserts(r) =>
               /\ \A v \in votes \cup votes' :
                    ~IsRowOf(v, req[r].user, t, id) => (v \in votes <=> v \in votes')
               /\ posts' = posts /\ comments' = comments
          /\ Recounts(r) => req'[r].newScore = LedgerCount(votes, t, id)
          /\ WritesScore(r) =>
               /\ votes' = votes
               /\ DOMAIN posts' = DOMAIN posts /\ DOMAIN comments' = DOMAIN comments
               /\ \A p \in DOMAIN posts :
                    /\ SameButScore(posts'[p], posts[p])
                    /\ (t # "post" \/ p # id) => posts'[p].score = posts[p].score
               /\ \A c \in DOMAIN comments :
                    /\ SameButScore(comments'[c], comments[c])
                    /\ (t # "comment" \/ c # id) => comments'[c].score = comments[c].score]_vars

\* A vote on comment 1 was answered 200 and changed its score, while post 1,
\* which carries the same id, holds another score.
C27_Witness ==
  \E r \in Req :
    /\ req[r].op = "handleVoteComment" /\ req[r].status = 200 /\ req[r].id = 1
    /\ req[r].wroteDb
    /\ 1 \in DOMAIN posts /\ 1 \in DOMAIN comments
    /\ posts[1].score # comments[1].score
    /\ \E v \in votes : v.entity_type = "post" /\ v.entity_id = 1

\* ------------------------------------------------------------ clicks
\* The step in which click request r is answered with the given status.
ClickAnswered(r, code) ==
  /\ req'[r].op = "handleTrackClick" /\ req[r].pc # "done"
  /\ req'[r].pc = "done" /\ req'[r].status = code

\* The posts whose clicks a step changes.
ClicksChanged == {p \in DOMAIN posts : posts'[p].clicks # posts[p].clicks}

\* C28: every click request on a link post that completes successfully makes
\* the post's clicks grow by exactly one, in any interleaving, and no other
\* step changes a clicks value: after n such requests clicks has grown by n.
\* A click request on a self post or an unknown id returns 404 and changes no
\* clicks value.
C28_ClicksCountEveryClick ==
  [][/\ DOMAIN posts' = DOMAIN posts
     /\ \A r \in Req :
          /\ ClickAnswered(r, 200) =>
               /\ req'[r].id \in DOMAIN posts /\ posts[req'[r].id].type = "link"
               /\ posts'[req'[r].id].clicks = posts[req'[r].id].clicks + 1
               /\ ClicksChanged = {req'[r].id}
          /\ ClickAnswered(r, 404) =>
               /\ ~(req'[r].id \in DOMAIN posts /\ posts[req'[r].id].type = "link")
               /\ ClicksChanged = {}
     /\ ClicksChanged # {} => \E r \in Req : ClickAnswered(r, 200)]_vars

\* Two click requests on link post 3 overlap: one has been answered 200 while
\* the other, which arrived first, is between its SELECT and its UPDATE.
C28_Witness ==
  \E r, q \in Req :
    /\ r < q
    /\ req[r].op = "handleTrackClick" /\ req[r].pc = "k_update" /\ req[r].id = 3
    /\ req[q].op = "handleTrackClick" /\ req[q].status = 200 /\ req[q].id = 3
    /\ posts[3].clicks = 1

\* ------------------------------------------------------------ edits
\* The title and the body of post p.
Text(ps, bodies, p) ==
  <<ps[p].title, IF p \in DOMAIN bodies THEN bodies[p] ELSE NoContent>>

\* Whether request r is an edit of post p that is writing.
EditWrites(r, p) ==
  /\ req[r].op = "handleEditPost" /\ req[r].pc \in {"e_update", "e_body"}
  /\ req'[r].pc # req[r].pc /\ req[r].id = p

\* A read and an edit of one post by one user at one instant.
SameInstant(g, e) ==
  /\ req[g].op = "handleGetPost" /\ req[g].status = 200
  /\ req[e].op = "handleEditPost" /\ req[e].pc # "idle"
  /\ req[e].user = req[g].user /\ req[e].id = req[g].id /\ req[e].at = req[g].at

\* can_edit of every read agrees with what every edit at the same instant met.
CanEditAgrees ==
  \A g, e \in Req :
    SameInstant(g, e) => (req[g].can <=> ~(req[e].pc = "done" /\ req[e].status \in {401, 403, 404}))

\* C29: a post's title and body change only in an edit by its author made
\* while now - created_at <= 2 hours; an edit answered 401, 403 or 404 has
\* left the post and its body unchanged; and handleGetPost reports can_edit =
\* true for a user exactly when an edit by that user at the same instant
\* passes the author and 2-hour checks.
C29_EditOnlyByAuthorInWindow ==
  [][/\ \A p \in DOMAIN posts :
          Text(posts', post_bodies', p) # Text(posts, post_bodies, p) =>
            \E r \in Req : /\ EditWrites(r, p)
                           /\ req[r].user = posts[p].author_id
                           /\ now - posts[p].created_at <= 2 * HourSeconds
     /\ \A r \in Req :
          (/\ req'[r].op = "handleEditPost" /\ req[r].pc # "done" /\ req'[r].pc = "done"
           /\ req'[r].status \in {401, 403, 404})
            => /\ ~req'[r].wroteDb
               /\ posts' = posts /\ post_bodies' = post_bodies
     /\ CanEditAgrees']_vars

\* Exactly 2 hours after post 1 was created its author reads it, is told
\* can_edit = true, and an edit by the author at that instant has changed its
\* title and body.
C29_Witness ==
  \E g, e \in Req :
    /\ SameInstant(g, e) /\ req[g].id = 1 /\ req[g].can
    /\ req[g].at - posts[1].created_at = 2 * HourSeconds
    /\ req[e].status = 200
    /\ Text(posts, post_bodies, 1) = <<"t2", "m2">>

\* ------------------------------------------------------------ rate-limit status
\* The step in which a rate-limit-status request of a user is answered.
StatusAnswered(r) ==
  /\ req[r].pc = "idle" /\ req'[r].op = "handleGetRateLimitStatus"
  /\ req'[r].status = 200

\* Whether a valid submission by u at instant t is rejected with 429.
Gate429(u, t) == PostLimitReached(PostCount(kv, u, t))

\* C30: the rate-limit-status endpoint reports can_post = true for a user
\* exactly when a valid post submission by that user at the same instant is
\* not rejected with 429, and when it reports can_post = false, next_post_at
\* is the instant from which a submission is admitted.
C30_StatusAgreesWithGate ==
  [][\A r \in Req : StatusAnswered(r) =>
       /\ req'[r].can <=> ~Gate429(req'[r].user, now)
       /\ ~req'[r].can =>
            /\ Gate429(req'[r].user, req'[r].at - 1)
            /\ ~Gate429(req'[r].user, req'[r].at)]_vars

============================================================================
